---------------------------- MODULE Spec2Model ----------------------------
(***************************************************************************)
(* rhi: an HTTP load generator (src/main.rs).                              *)
(*                                                                         *)
(* main() parses the options, creates a reactor (Core), an HTTP client and *)
(* a one-second Interval.  On every tick of the interval the closure       *)
(* builds and spawns opts.creq requests.  Every spawned future sends the   *)
(* request, prints the status line when the response head arrives, drains  *)
(* the body, and swallows its own result with .then(|_| Ok(())).  The      *)
(* reactor runs the tick stream for ever: core.run(ticks_future).          *)
(*                                                                         *)
(* The reactor is single threaded: the tick closure and every step of a    *)
(* spawned future run to their next suspension point without being         *)
(* interleaved, so each is one atomic action here.                         *)
(***************************************************************************)
EXTENDS Integers, Sequences, FiniteSets, TLC

(***************************************************************************)
(* Bounds of the model.                                                    *)
(***************************************************************************)
\* Number of ticks of the Interval that the model follows.
MaxTicks == 2

(***************************************************************************)
(* Command line values.  A value is a sequence of characters.              *)
(***************************************************************************)
Digits == <<"0", "1", "2", "3", "4", "5", "6", "7", "8", "9">>

IsDigit(ch) == \E d \in 1..10 : Digits[d] = ch

DigitVal(ch) == (CHOOSE d \in 1..10 : Digits[d] = ch) - 1

\* u32::MAX is 4294967295 = U32MaxDiv10 * 10 + U32MaxMod10.
U32MaxDiv10 == 429496729
U32MaxMod10 == 5

ParseErr == [ok |-> FALSE, val |-> 0]
ParseOk(v) == [ok |-> TRUE, val |-> v]

\* The digit loop of str::parse::<u32>: checked_mul(10), checked_add(digit).
RECURSIVE ParseDigits(_, _)
ParseDigits(s, acc) ==
    IF s = <<>> THEN ParseOk(acc)
    ELSE IF ~IsDigit(Head(s)) THEN ParseErr
    ELSE LET d == DigitVal(Head(s)) IN
         IF acc > U32MaxDiv10 \/ (acc = U32MaxDiv10 /\ d > U32MaxMod10)
         THEN ParseErr
         ELSE ParseDigits(Tail(s), acc * 10 + d)

\* t.parse::<u32>(): empty is an error, one leading "+" is accepted, any
\* other non-digit (a "-" included) or a value above u32::MAX is an error.
ParseU32(s) ==
    IF s = <<>> THEN ParseErr
    ELSE IF Head(s) = "+"
         THEN (IF Tail(s) = <<>> THEN ParseErr ELSE ParseDigits(Tail(s), 0))
         ELSE ParseDigits(s, 0)

\* Values given to -n, -c and -q.
NumArgs == {<<"0">>, <<"1">>, <<"2">>}
BadArgs == {<<"x">>, <<"4", "2", "9", "4", "9", "6", "7", "2", "9", "6">>}
ArgStrings == NumArgs \cup BadArgs

\* Values given to -t (never read by the program).
TimeoutArgs == {<<"0">>, <<"2", "0">>}

\* The arguments get_request reads.  An optional argument is <<>> when
\* absent and <<value>> when present.
\*   url            whether Uri::from_str accepts the text
\*   accept_header  whether QualityItem::from_str accepts the text
\*   a              the text given to -a
RequestArgs ==
    { [url |-> "wellformed", accept_header |-> <<>>, a |-> <<>>],
      [url |-> "wellformed", accept_header |-> <<"valid">>,
       a |-> << <<"u", ":", "p">> >>],
      [url |-> "malformed", accept_header |-> <<>>, a |-> <<>>],
      [url |-> "wellformed", accept_header |-> <<"invalid">>, a |-> <<>>],
      [url |-> "wellformed", accept_header |-> <<>>, a |-> << <<"u">> >>] }

\* ArgMatches: what clap hands back from get_matches().
ArgMatchesSet ==
    { [n |-> n, c |-> c, q |-> q, t |-> t, url |-> r.url,
       accept_header |-> r.accept_header, a |-> r.a] :
        n \in ArgStrings, c \in ArgStrings, q \in ArgStrings,
        t \in TimeoutArgs, r \in RequestArgs }

(***************************************************************************)
(* Options                                                                 *)
(***************************************************************************)
\* timeout: Duration::new(10,0)
TimeoutSecs == 10

\* The value of opts before get_options has returned.
NoOptions == [nreq |-> 0, creq |-> 0, rps |-> 0, timeout |-> 0]

\* The defaults of the None arms of get_options.
DEFAULT_NREQ == 100
DEFAULT_CREQ == 10
DEFAULT_RPS == 10

\* A variant of get_options that falls back to the defaults when a value
\* does not parse, instead of returning the error.
get_options_defaults(m) ==
    LET nreq == ParseU32(m.n)
        creq == ParseU32(m.c)
        rps  == ParseU32(m.q)
    IN  [ok |-> TRUE,
         options |-> [nreq |-> IF nreq.ok THEN nreq.val ELSE DEFAULT_NREQ,
                      creq |-> IF creq.ok THEN creq.val ELSE DEFAULT_CREQ,
                      rps |-> IF rps.ok THEN rps.val ELSE DEFAULT_RPS,
                      timeout |-> TimeoutSecs]]

\* get_options(): the three parses with `?`, in source order, then the
\* Options literal.  No relation between the values is checked.
get_options(m) ==
    LET nreq == ParseU32(m.n)
        creq == ParseU32(m.c)
        rps  == ParseU32(m.q)
    IN  IF ~nreq.ok THEN [ok |-> FALSE, options |-> NoOptions]
        ELSE IF ~creq.ok THEN [ok |-> FALSE, options |-> NoOptions]
        ELSE IF ~rps.ok THEN [ok |-> FALSE, options |-> NoOptions]
        ELSE [ok |-> TRUE,
              options |-> [nreq |-> nreq.val, creq |-> creq.val,
                           rps |-> rps.val, timeout |-> TimeoutSecs]]

\* Number of pieces of s.split(':').
RECURSIVE split_len(_)
split_len(s) ==
    IF s = <<>> THEN 1
    ELSE (IF Head(s) = ":" THEN 1 ELSE 0) + split_len(Tail(s))

\* Options::get_request() builds a fresh Request from the arguments; it
\* panics when Uri::from_str(uri).unwrap() or QualityItem::from_str(..)
\* .unwrap() fails, or when assert_eq!(v.len(), 2) does.  Method, headers
\* and body of the Request it returns play no part in the scheduling.
get_request_panics(m) ==
    \/ m.url = "malformed"
    \/ (m.accept_header # <<>> /\ m.accept_header[1] = "invalid")
    \/ (m.a # <<>> /\ split_len(m.a[1]) # 2)

\* A variant of get_request that hands out one cached Request instead of
\* building a new one on every call.
get_request_shared(m, built) ==
    [id |-> 1, uri |-> m.url, accept |-> m.accept_header, auth |-> m.a]

\* Options::get_request() when it does not panic: Request::new(method, uri)
\* makes a new Request on every call, the (built + 1)-th here, and the
\* headers are set from the arguments.
get_request(m, built) ==
    [id |-> built + 1, uri |-> m.url, accept |-> m.accept_header, auth |-> m.a]

(***************************************************************************)
(* State                                                                   *)
(***************************************************************************)
VARIABLES
    pc,       \* "start": in main before get_options; "running": inside
              \* core.run; "panicked": the process died on an unwrap;
              \* "done": core.run returned
    matches,  \* the parsed command line (ArgMatches)
    opts,     \* the Options that the tick closure owns
    ticks,    \* number of ticks of the Interval delivered so far
    reqs,     \* the spawned futures in spawn order; reqs[i] is the position
              \* of the i-th one in its and_then/then chain
    printed,  \* the futures whose "response: ..." line has been written
    batches,  \* batches[k]: number of futures spawned by the k-th tick
    requests  \* requests[i]: the Request that the i-th future was given

vars == <<pc, matches, opts, ticks, reqs, printed, batches, requests>>

\* Positions of a spawned future.
\*   "sent"    client.request(req) is pending
\*   "body"    the head arrived, println! ran, concat2 is pending
\*   "ok"      concat2 resolved; the future finished
\*   "connerr" client.request(req) resolved to Err; the future finished
\*   "bodyerr" concat2 resolved to Err; the future finished
Pending  == {"sent", "body"}
Failed   == {"connerr", "bodyerr"}
Finished == {"ok"} \cup Failed

TypeOK ==
    /\ pc \in {"start", "running", "panicked", "done"}
    /\ matches \in ArgMatchesSet
    /\ ticks \in 0..MaxTicks
    /\ reqs \in Seq(Pending \cup Finished)
    /\ printed \subseteq DOMAIN reqs
    /\ batches \in Seq(Nat)
    /\ Len(requests) = Len(reqs)

\* Counters of the run.  The program keeps none of them; they are read off
\* the set of spawned futures.
issued_count    == Len(reqs)
completed_count == Cardinality({i \in DOMAIN reqs : reqs[i] \in Finished})
in_flight_count == issued_count - completed_count

(***************************************************************************)
(* Operations                                                              *)
(***************************************************************************)
Init ==
    /\ pc = "start"
    /\ matches \in ArgMatchesSet
    /\ opts = NoOptions
    /\ ticks = 0
    /\ reqs = <<>>
    /\ printed = {}
    /\ batches = <<>>
    /\ requests = <<>>

\* let opts = get_options().unwrap(); Core::new(); Client::new(); Interval::new
GetOptions ==
    /\ pc = "start"
    /\ LET r == get_options(matches) IN
         /\ pc' = IF r.ok THEN "running" ELSE "panicked"
         /\ opts' = r.options
    /\ UNCHANGED <<matches, ticks, reqs, printed, batches, requests>>

\* A variant of spawn_loop whose test is c <= creq.
RECURSIVE spawn_loop_off_by_one(_, _, _, _)
spawn_loop_off_by_one(c, o, m, rs) ==
    IF c <= o.creq
    THEN IF get_request_panics(m)
         THEN [panic |-> TRUE, reqs |-> rs]
         ELSE spawn_loop_off_by_one(c + 1, o, m, Append(rs, "sent"))
    ELSE [panic |-> FALSE, reqs |-> rs]

\* A variant of spawn_loop that stops when nreq requests have been issued.
RECURSIVE spawn_loop_capped(_, _, _, _)
spawn_loop_capped(c, o, m, rs) ==
    IF c < o.creq /\ Len(rs) < o.nreq
    THEN IF get_request_panics(m)
         THEN [panic |-> TRUE, reqs |-> rs]
         ELSE spawn_loop_capped(c + 1, o, m, Append(rs, "sent"))
    ELSE [panic |-> FALSE, reqs |-> rs]

\* The while loop of the tick closure, from counter c and the futures
\* spawned so far.
RECURSIVE spawn_loop(_, _, _, _)
spawn_loop(c, o, m, rs) ==
    IF c < o.creq
    THEN IF get_request_panics(m)
         THEN [panic |-> TRUE, reqs |-> rs]
         ELSE spawn_loop(c + 1, o, m, Append(rs, "sent"))
    ELSE [panic |-> FALSE, reqs |-> rs]

\* The Requests built by the spawns that take rs to n futures: one call
\* of get_request (let req = opts.get_request()) for each.
RECURSIVE request_loop(_, _, _)
request_loop(m, rs, n) ==
    IF Len(rs) < n
    THEN request_loop(m, Append(rs, get_request(m, Len(rs))), n)
    ELSE rs

\* A variant of Tick that leaves the closure after its first spawn, the
\* rest of the batch being left to a later step.
TickPartial ==
    /\ pc = "running"
    /\ ticks < MaxTicks
    /\ ticks' = ticks + 1
    /\ LET r == spawn_loop(0, [opts EXCEPT !.creq = IF @ > 1 THEN 1 ELSE @],
                           matches, reqs) IN
         /\ reqs' = r.reqs
         /\ pc' = IF r.panic THEN "panicked" ELSE pc
         /\ batches' = IF r.panic THEN batches
                       ELSE Append(batches, Len(r.reqs) - Len(reqs))
         /\ requests' = request_loop(matches, requests, Len(r.reqs))
    /\ UNCHANGED <<matches, opts, printed>>

\* One tick of the Interval: the closure given to ticks.for_each.
Tick ==
    /\ pc = "running"
    /\ ticks < MaxTicks
    /\ ticks' = ticks + 1
    /\ LET r == spawn_loop(0, opts, matches, reqs) IN
         /\ reqs' = r.reqs
         /\ pc' = IF r.panic THEN "panicked" ELSE pc
         /\ batches' = IF r.panic THEN batches
                       ELSE Append(batches, Len(r.reqs) - Len(reqs))
         /\ requests' = request_loop(matches, requests, Len(r.reqs))
    /\ UNCHANGED <<matches, opts, printed>>

\* client.request(req) resolves to Ok(res): the and_then closure prints the
\* status (whatever it is) and returns res.body().concat2().
ResponseHead(i) ==
    /\ pc = "running"
    /\ i \in DOMAIN reqs
    /\ reqs[i] = "sent"
    /\ reqs' = [reqs EXCEPT ![i] = "body"]
    /\ printed' = printed \cup {i}
    /\ UNCHANGED <<pc, matches, opts, ticks, batches, requests>>

\* concat2 resolves to Ok: .then(|_| Ok(())) finishes the future.
BodyDone(i) ==
    /\ pc = "running"
    /\ i \in DOMAIN reqs
    /\ reqs[i] = "body"
    /\ reqs' = [reqs EXCEPT ![i] = "ok"]
    /\ UNCHANGED <<pc, matches, opts, ticks, printed, batches, requests>>

\* A variant of then_discard in which the Err is not discarded: it reaches
\* core.run(..).unwrap() and the process dies.
then_propagate(i, position) ==
    /\ reqs' = [reqs EXCEPT ![i] = position]
    /\ pc' = "panicked"
    /\ UNCHANGED <<matches, opts, ticks, printed, batches, requests>>

\* What a failed future does to the rest of the program: .then(|_| Ok(()))
\* turns the Err into Ok(()), so nothing.
then_discard(i, position) ==
    /\ reqs' = [reqs EXCEPT ![i] = position]
    /\ UNCHANGED <<pc, matches, opts, ticks, printed, batches, requests>>

\* client.request(req) resolves to Err (connect, DNS, protocol): and_then
\* is skipped, .then(|_| Ok(())) finishes the future.
RequestError(i) ==
    /\ pc = "running"
    /\ i \in DOMAIN reqs
    /\ reqs[i] = "sent"
    /\ then_discard(i, "connerr")

\* concat2 resolves to Err while the body is read.
BodyError(i) ==
    /\ pc = "running"
    /\ i \in DOMAIN reqs
    /\ reqs[i] = "body"
    /\ then_discard(i, "bodyerr")

\* Bound on the number of futures the model can spawn.
MaxReqs == MaxTicks * 2

Next ==
    \/ GetOptions
    \/ Tick
    \/ \E i \in 1..MaxReqs : ResponseHead(i)
    \/ \E i \in 1..MaxReqs : BodyDone(i)
    \/ \E i \in 1..MaxReqs : RequestError(i)
    \/ \E i \in 1..MaxReqs : BodyError(i)

Spec == Init /\ [][Next]_vars

(***************************************************************************)
(* Fairness.  The reactor delivers every tick of the Interval and runs     *)
(* get_options once; it promises nothing about the server.                 *)
(***************************************************************************)
ReactorFairness == WF_vars(GetOptions) /\ WF_vars(Tick)

\* The reactor alone: the server may stay silent for ever.
LiveSpec == Spec /\ ReactorFairness

\* The reactor, and a server under which every issued request completes.
ServerFairness ==
    \A i \in 1..MaxReqs : WF_vars(ResponseHead(i)) /\ WF_vars(BodyDone(i))

FairSpec == Spec /\ ReactorFairness /\ ServerFairness

(***************************************************************************)
(* Properties                                                              *)
(***************************************************************************)

\* The load profile is one the specification admits: concurrency at least
\* 1 and a total no smaller than the concurrency.
ValidProfile == pc = "running" /\ opts.creq >= 1 /\ opts.nreq >= opts.creq

\* C1: at every moment of a run the number of requests in flight (issued
\* minus completed) is between 0 and the concurrency opts.creq.
C1_InFlightWithinConcurrency ==
    ValidProfile =>
        /\ 0 <= in_flight_count
        /\ in_flight_count <= opts.creq

\* C2: at every moment of a run completed_count <= issued_count <= nreq:
\* no more than the -n requests are ever issued.
C2_IssuedWithinTotal ==
    ValidProfile =>
        /\ completed_count <= issued_count
        /\ issued_count <= opts.nreq

\* C3: the run terminates exactly when completed_count = nreq: core.run
\* does not return earlier; once the nreq-th request has completed no tick
\* admits further work; and core.run then eventually returns (every issued
\* request completing, ticks being fair).
C3_TerminatesExactlyAtTotal ==
    /\ [](pc = "done" => completed_count = opts.nreq)
    /\ [][(ValidProfile /\ completed_count >= opts.nreq) =>
            issued_count' = issued_count]_vars
    /\ ((ValidProfile /\ completed_count = opts.nreq) ~> (pc = "done"))

\* Requests admitted in the one-second window that spans the interval from
\* tick k to tick k + 1.
AdmittedInWindow(k) == batches[k] + batches[k + 1]

\* C4: with rps > 0, the number of requests admitted in any one-second
\* window is at most rps, plus one tick's worth (rps) of tolerance.
C4_RateBound ==
    (ValidProfile /\ opts.rps > 0) =>
        \A k \in 1..(Len(batches) - 1) : AdmittedInWindow(k) <= opts.rps + opts.rps

\* C5: when the -n value is smaller than the -c value the run never starts
\* and no request is issued.
C5_TotalBelowConcurrencyRejected ==
    LET n == ParseU32(matches.n)
        c == ParseU32(matches.c)
    IN  (n.ok /\ c.ok /\ n.val < c.val) =>
            (pc # "running" /\ issued_count = 0)

\* The step is the failure of request i.
FailureStep(i) ==
    /\ i \in DOMAIN reqs
    /\ reqs[i] \in Pending
    /\ reqs'[i] \in Failed

\* C6: a request failure never aborts the run or another execution.  The
\* failing step leaves the run running and touches no other request; and
\* whenever a request has failed, the next tick can still fire and every
\* request still in flight can still make progress.
C6_FailureDoesNotAbort ==
    /\ [][\A i \in 1..MaxReqs :
            FailureStep(i) =>
                /\ pc' = "running"
                /\ ticks' = ticks
                /\ DOMAIN reqs' = DOMAIN reqs
                /\ \A j \in DOMAIN reqs \ {i} : reqs'[j] = reqs[j]]_vars
    /\ []((\E i \in DOMAIN reqs : reqs[i] \in Failed) =>
            /\ pc = "running"
            /\ (ticks < MaxTicks => ENABLED Tick)
            /\ \A j \in DOMAIN reqs :
                 /\ (reqs[j] = "sent" => ENABLED ResponseHead(j))
                 /\ (reqs[j] = "body" => ENABLED BodyDone(j)))

\* C6 witness: a request of the first tick has failed, the run is running,
\* and the second tick has admitted requests of which one has completed.
C6_Witness ==
    /\ pc = "running"
    /\ Len(batches) = 2
    /\ \E i \in 1..batches[1] : reqs[i] \in Failed
    /\ \E j \in (batches[1] + 1)..Len(reqs) : reqs[j] = "ok"

\* C7: every execution that has finished has exactly one completion record
\* (the only record the program writes is its "response:" line).
C7_OneRecordPerFinished ==
    \A i \in DOMAIN reqs : reqs[i] \in Finished => i \in printed

\* C8: every admitted request eventually leaves the in-flight set, even if
\* the server never answers (the timeout ends it).
C8_TimeoutEndsRequest ==
    \A i \in 1..MaxReqs :
        (i \in DOMAIN reqs /\ reqs[i] \in Pending)
            ~> (i \in DOMAIN reqs /\ reqs[i] \in Finished)

\* The issue positions handed out so far, 0-based.
sequence_numbers == {i - 1 : i \in DOMAIN reqs}

\* C9: the sequence numbers assigned in a run are within 0..nreq-1, and
\* are exactly that set once nreq requests have completed.
C9_SequenceNumbers ==
    ValidProfile =>
        /\ sequence_numbers \subseteq 0..(opts.nreq - 1)
        /\ (completed_count = opts.nreq =>
                sequence_numbers = 0..(opts.nreq - 1))

\* C10: when nreq = creq the first tick admits all nreq requests in one
\* batch and no later tick admits anything.
C10_SingleBatchWhenEqual ==
    (ValidProfile /\ opts.nreq = opts.creq) =>
        \A k \in DOMAIN batches :
            batches[k] = IF k = 1 THEN opts.nreq ELSE 0

\* C11: with rps = 0 the rate bound is vacuous: admissions are limited
\* only by the concurrency bound and by the requests left to issue, and
\* the run is not starved (the first tick admits requests).
C11_ZeroRateFlood ==
    (ValidProfile /\ opts.rps = 0) =>
        /\ in_flight_count <= opts.creq
        /\ issued_count <= opts.nreq
        /\ (ticks >= 1 => issued_count >= 1)

\* What the program has reported of the run: the "response:" lines it has
\* written.  It keeps no other account of its requests.
snapshot_total == Cardinality(printed)

\* C12: the report of the run does not depend on the order in which the
\* requests completed (it is determined by the set of requests that got a
\* response), and once nreq requests have completed it reflects all nreq
\* of them.
C12_SnapshotReflectsAll ==
    /\ printed = {i \in DOMAIN reqs : reqs[i] \in {"body", "ok", "bodyerr"}}
    /\ (ValidProfile /\ completed_count = opts.nreq) =>
            snapshot_total = opts.nreq

Min(a, b) == IF a <= b THEN a ELSE b

\* Rate tokens a tick has to spend: rps of them, or no limit when rps = 0.
\* The limit is then written as nreq, which bounds every admission.
rate_tokens == IF opts.rps = 0 THEN opts.nreq ELSE opts.rps

\* C13: every admission step admits min(free concurrency slots, rate
\* tokens, requests left to issue) requests.
C13_AdmitsMinimum ==
    [][(ValidProfile /\ issued_count' # issued_count) =>
          issued_count' - issued_count =
              Min(opts.creq - in_flight_count,
                  Min(rate_tokens, opts.nreq - issued_count))]_vars

\* The step is the completion of some request.
CompletionStep == completed_count' = completed_count + 1

\* Requests admitted by the latest tick, i.e. within the current second.
admitted_this_second == IF batches = <<>> THEN 0 ELSE batches[Len(batches)]

\* C14: admission is re-checked on every completion: when a request
\* completes while requests are left to issue and rate budget remains, a
\* request is admitted in that step, without waiting for the next tick.
C14_AdmissionOnCompletion ==
    [][(/\ ValidProfile
        /\ CompletionStep
        /\ issued_count < opts.nreq
        /\ (opts.rps = 0 \/ admitted_this_second < opts.rps)) =>
          issued_count' > issued_count]_vars

C16_ProfileReadOnlyFreshRequests ==
    /\ [][pc = "running" => (opts' = opts /\ matches' = matches)]_vars
    /\ [](/\ Len(requests) = Len(reqs)
          /\ \A i, j \in DOMAIN requests :
                i # j => requests[i].id # requests[j].id
          /\ \A i \in DOMAIN requests :
                /\ requests[i].uri = matches.url
                /\ requests[i].accept = matches.accept_header
                /\ requests[i].auth = matches.a)

\* C16 witness: two ticks have spawned four futures, some of them have
\* completed, and the options are those parsed at the start.
C16_Witness ==
    /\ pc = "running"
    /\ Len(requests) = 4
    /\ completed_count >= 2
    /\ opts = get_options(matches).options

\* C17: admission is done by one authority, a whole batch at a time: a
\* step that issues requests is one tick issuing its whole batch and
\* touches no request already issued; a step that moves a request along
\* moves exactly one and issues nothing.
C17_SingleSchedulingAuthority ==
    [][/\ (issued_count' # issued_count =>
             /\ ticks' = ticks + 1
             /\ issued_count' - issued_count = opts.creq
             /\ completed_count' = completed_count
             /\ \A i \in DOMAIN reqs : reqs'[i] = reqs[i])
       /\ ((\E i \in DOMAIN reqs : reqs'[i] # reqs[i]) =>
             /\ issued_count' = issued_count
             /\ ticks' = ticks
             /\ Cardinality({i \in DOMAIN reqs : reqs'[i] # reqs[i]}) = 1)]_vars

\* C17 witness: a second batch was issued while requests of the first were
\* part finished and part in flight.
C17_Witness ==
    /\ pc = "running"
    /\ batches = <<2, 2>>
    /\ reqs[1] \in Finished
    /\ reqs[2] \in Pending
    /\ reqs[3] = "body"

\* The admissions of the first k ticks of a run given c_arg as -c.
schedule(c_arg, k) == [j \in 1..k |-> ParseU32(c_arg).val]

ParseFails ==
    \/ ~ParseU32(matches.n).ok
    \/ ~ParseU32(matches.c).ok
    \/ ~ParseU32(matches.q).ok

\* C19: if -n, -c or -q does not parse, the program stops before the event
\* loop exists: no Options, no tick, no request.
C19_ParseErrorStopsBeforeLoop ==
    ParseFails =>
        /\ pc \in {"start", "panicked"}
        /\ opts = NoOptions
        /\ ticks = 0
        /\ issued_count = 0

\* C19 witness: the program has stopped on a -q value that does not parse,
\* -n and -c being fine.
C19_Witness ==
    /\ pc = "panicked"
    /\ ParseU32(matches.n).ok /\ ParseU32(matches.c).ok
    /\ ~ParseU32(matches.q).ok

=============================================================================
